---- MODULE Spec2Model ----
(***************************************************************************)
(* A model of librustdoc's syntax highlighter                              *)
(* (src/librustdoc/html/highlight.rs): the Classifier, its one-token       *)
(* lookahead, the Writer sink and render_with_highlighting.                *)
(*                                                                         *)
(* The lexer (rustc_parse::lexer::StringReader) is outside the file: its   *)
(* result for an input is the variable src, the sequence of tokens it      *)
(* returns before Eof.  Text is a sequence of one-character strings; what  *)
(* is written to a sink is a string.                                       *)
(***************************************************************************)
EXTENDS Naturals, Sequences, FiniteSets, TLC

VARIABLES
    src,                  \* the tokens the lexer returns for the input, before Eof
    opts,                 \* render_with_highlighting's class, extension, tooltip
    sink_fail_at,         \* the Writer call that returns Err (0: none, as for Vec<u8>)
    pc,                   \* "write_source", "returned", "done", or a Writer step
    run,                  \* which invocation of render_with_highlighting this is
    pulled,               \* number of lexer.next_token() calls made so far
    peek_token,           \* Classifier.peek_token: <<>> is None, <<t>> is Some(t)
    in_attribute,         \* Classifier.in_attribute
    in_macro,             \* Classifier.in_macro
    in_macro_nonterminal, \* Classifier.in_macro_nonterminal
    highlighted_source,   \* the Vec<u8> write_source writes into
    calls,                \* the Writer calls made on it, in order
    err,                  \* "" or the HighlightError write_source stopped with
    html,                 \* what render_with_highlighting returned
    prev_html,            \* what the previous invocation returned
    wr,                   \* two Vec<u8> sinks driven directly (Writer laws)
    lexlog                \* the peek and try_next_token calls made directly, in order

vars == <<src, opts, sink_fail_at, pc, run, pulled, peek_token, in_attribute,
          in_macro, in_macro_nonterminal, highlighted_source, calls, err,
          html, prev_html, wr, lexlog>>

(***************************************************************************)
(* Bounds of the model.                                                    *)
(***************************************************************************)
MaxLen == 4
MaxLenTwice == 3
MaxLenFair == 3
MaxLenSink == 2
MaxRuns == 2
MaxFailAt == 3
MaxTextLen == 2
MaxLenPeek == 3
MaxLenIdent == 4
MaxCalls == 5

(***************************************************************************)
(* Tokens.                                                                 *)
(***************************************************************************)
Tok(k) == [kind |-> k, name |-> "", is_raw |-> FALSE]

Ident(n, r) == [kind |-> "Ident", name |-> n, is_raw |-> r]

Literal(k) == [kind |-> "Literal", name |-> k, is_raw |-> FALSE]

Eof == Tok("Eof")

\* kw::* and sym::* names that write_token tests by value
RefNames == {"ref", "mut"}

SelfNames == {"self", "Self"}

BoolNames == {"false", "true"}

PreludeTyNames == {"Option", "Result"}

PreludeValNames == {"Some", "None", "Ok", "Err"}

\* identifiers the lexer flags as reserved
ReservedNames == {"fn", "crate", "ref", "mut", "self", "Self", "false", "true"}

IsReservedIdent(token) ==
    token.kind = "Ident" /\ ~token.is_raw /\ token.name \in ReservedNames

IsIdent(token) == token.kind = "Ident"

\* the characters of an identifier
NameText(n) ==
    CASE n = "f" -> <<"f">>
      [] n = "fn" -> <<"f", "n">>
      [] n = "crate" -> <<"c", "r", "a", "t", "e">>
      [] n = "ref" -> <<"r", "e", "f">>
      [] n = "mut" -> <<"m", "u", "t">>
      [] n = "self" -> <<"s", "e", "l", "f">>
      [] n = "Self" -> <<"S", "e", "l", "f">>
      [] n = "false" -> <<"f", "a", "l", "s", "e">>
      [] n = "true" -> <<"t", "r", "u", "e">>
      [] n = "Option" -> <<"O", "p", "t", "i", "o", "n">>
      [] n = "Result" -> <<"R", "e", "s", "u", "l", "t">>
      [] n = "Some" -> <<"S", "o", "m", "e">>
      [] n = "None" -> <<"N", "o", "n", "e">>
      [] n = "Ok" -> <<"O", "k">>
      [] n = "Err" -> <<"E", "r", "r">>
      [] OTHER -> <<"x">>

\* source_map.span_to_snippet(token.span): the token's text in the source
snip(token) ==
    LET kind == token.kind IN
    CASE kind = "Shebang" -> <<"#", "!", "/", "s">>
      [] kind = "Whitespace" -> <<" ">>
      [] kind = "Unknown" -> <<"\\">>
      [] kind = "Comment" -> <<"/", "/", "c">>
      [] kind = "DocComment" -> <<"/", "/", "/", "d">>
      [] kind = "And" -> <<"&">>
      [] kind = "Star" -> <<"*">>
      [] kind = "Not" -> <<"!">>
      [] kind = "Eq" -> <<"=">>
      [] kind = "Lt" -> <<"<">>
      [] kind = "Le" -> <<"<", "=">>
      [] kind = "EqEq" -> <<"=", "=">>
      [] kind = "Ne" -> <<"!", "=">>
      [] kind = "Ge" -> <<">", "=">>
      [] kind = "Gt" -> <<">">>
      [] kind = "AndAnd" -> <<"&", "&">>
      [] kind = "OrOr" -> <<"|", "|">>
      [] kind = "BinOp" -> <<"+">>
      [] kind = "RArrow" -> <<"-", ">">>
      [] kind = "BinOpEq" -> <<"+", "=">>
      [] kind = "FatArrow" -> <<"=", ">">>
      [] kind = "Dot" -> <<".">>
      [] kind = "DotDot" -> <<".", ".">>
      [] kind = "DotDotDot" -> <<".", ".", ".">>
      [] kind = "DotDotEq" -> <<".", ".", "=">>
      [] kind = "Comma" -> <<",">>
      [] kind = "Semi" -> <<";">>
      [] kind = "Colon" -> <<":">>
      [] kind = "ModSep" -> <<":", ":">>
      [] kind = "LArrow" -> <<"<", "-">>
      [] kind = "OpenParen" -> <<"(">>
      [] kind = "OpenBrace" -> <<"{">>
      [] kind = "OpenBracket" -> <<"[">>
      [] kind = "CloseBrace" -> <<"}">>
      [] kind = "CloseParen" -> <<")">>
      [] kind = "CloseBracket" -> <<"]">>
      [] kind = "Question" -> <<"?">>
      [] kind = "Dollar" -> <<"$">>
      [] kind = "Pound" -> <<"#">>
      [] kind = "Literal" ->
            IF token.name \in {"Integer", "Float"} THEN <<"1">>
            ELSE <<"\"", "s", "\"">>
      [] kind = "Ident" ->
            IF token.is_raw THEN <<"r", "#">> \o NameText(token.name)
            ELSE NameText(token.name)
      [] kind = "Lifetime" -> <<"'", "a">>
      [] kind = "Tilde" -> <<"~">>
      [] kind = "At" -> <<"@">>
      [] kind = "SingleQuote" -> <<"'">>
      [] OTHER -> <<>>

\* the Symbol a Shebang token carries
ShebangSymbol(token) == snip(token)

RECURSIVE Flatten(_)
\* a text as the string of its characters
Flatten(text) ==
    IF text = <<>> THEN "" ELSE Head(text) \o Flatten(Tail(text))

EscapeChar(c) ==
    CASE c = ">" -> "&gt;"
      [] c = "<" -> "&lt;"
      [] c = "&" -> "&amp;"
      [] c = "'" -> "&#39;"
      [] c = "\"" -> "&quot;"
      [] OTHER -> c

RECURSIVE Escape(_)
\* what displaying crate::html::escape::Escape(text) writes
Escape(text) ==
    IF text = <<>> THEN "" ELSE EscapeChar(Head(text)) \o Escape(Tail(text))

RECURSIVE SourceText(_)
\* the input string: the texts of its tokens, in order
SourceText(tokens) ==
    IF tokens = <<>> THEN ""
    ELSE Flatten(snip(Head(tokens))) \o SourceText(Tail(tokens))

RECURSIVE EscapedSourceText(_)
EscapedSourceText(tokens) ==
    IF tokens = <<>> THEN ""
    ELSE Escape(snip(Head(tokens))) \o EscapedSourceText(Tail(tokens))

(***************************************************************************)
(* Class and the default Writer.                                           *)
(***************************************************************************)
Class == {"None", "Comment", "DocComment", "Attribute", "KeyWord", "RefKeyWord",
          "Self_", "Op", "Macro", "MacroNonTerminal", "String", "Number", "Bool",
          "Ident", "Lifetime", "PreludeTy", "PreludeVal", "QuestionMark"}

rustdoc_class(klass) ==
    CASE klass = "None" -> ""
      [] klass = "Comment" -> "comment"
      [] klass = "DocComment" -> "doccomment"
      [] klass = "Attribute" -> "attribute"
      [] klass = "KeyWord" -> "kw"
      [] klass = "RefKeyWord" -> "kw-2"
      [] klass = "Self_" -> "self"
      [] klass = "Op" -> "op"
      [] klass = "Macro" -> "macro"
      [] klass = "MacroNonTerminal" -> "macro-nonterminal"
      [] klass = "String" -> "string"
      [] klass = "Number" -> "number"
      [] klass = "Bool" -> "bool-val"
      [] klass = "Ident" -> "ident"
      [] klass = "Lifetime" -> "lifetime"
      [] klass = "PreludeTy" -> "prelude-ty"
      [] klass = "PreludeVal" -> "prelude-val"
      [] klass = "QuestionMark" -> "question-mark"

\* string leaving its span open
WriterStringUnclosed(buf, text, klass) ==
    IF klass = "None" THEN buf \o text
    ELSE buf \o "<span class=\"" \o rustdoc_class(klass) \o "\">" \o text

\* impl<U: Write> Writer for U: what each call appends to the buffer
WriterString(buf, text, klass) ==
    IF klass = "None" THEN buf \o text
    ELSE buf \o "<span class=\"" \o rustdoc_class(klass) \o "\">" \o text \o "</span>"

WriterEnterSpan(buf, klass) ==
    buf \o "<span class=\"" \o rustdoc_class(klass) \o "\">"

WriterExitSpan(buf) == buf \o "</span>"

(***************************************************************************)
(* The Classifier.  Its methods are operators on a record st of the        *)
(* classifier's fields, the lexer's position and the sink; st.err is the   *)
(* error a `?` has returned with, and every later call leaves st alone.    *)
(***************************************************************************)
St == [pulled |-> pulled, peek_token |-> peek_token, in_attribute |-> in_attribute,
       in_macro |-> in_macro, in_macro_nonterminal |-> in_macro_nonterminal,
       buf |-> highlighted_source, calls |-> calls, err |-> err]

\* Classifier::new, with a fresh lexer and an empty highlighted_source
ClassifierNew ==
    [pulled |-> 0, peek_token |-> <<>>, in_attribute |-> FALSE,
     in_macro |-> FALSE, in_macro_nonterminal |-> FALSE,
     buf |-> "", calls |-> <<>>, err |-> ""]

\* the i-th result of lexer.next_token(): Eof once the input is exhausted
NextToken(i) == IF i <= Len(src) THEN src[i] ELSE Eof

\* whether the sink's next call returns Err
SinkFails(st) == sink_fail_at # 0 /\ Len(st.calls) + 1 = sink_fail_at

\* out.string(text, klass)?
String(st, text, klass) ==
    IF st.err # "" THEN st
    ELSE IF SinkFails(st) THEN [st EXCEPT !.err = "IoError"]
    ELSE [st EXCEPT !.buf = WriterString(@, text, klass),
                    !.calls = Append(@, [op |-> "string", text |-> text,
                                         klass |-> klass])]

\* out.enter_span(klass)?
EnterSpan(st, klass) ==
    IF st.err # "" THEN st
    ELSE IF SinkFails(st) THEN [st EXCEPT !.err = "IoError"]
    ELSE [st EXCEPT !.buf = WriterEnterSpan(@, klass),
                    !.calls = Append(@, [op |-> "enter_span", text |-> "",
                                         klass |-> klass])]

\* out.exit_span()?
ExitSpan(st) ==
    IF st.err # "" THEN st
    ELSE IF SinkFails(st) THEN [st EXCEPT !.err = "IoError"]
    ELSE [st EXCEPT !.buf = WriterExitSpan(@),
                    !.calls = Append(@, [op |-> "exit_span", text |-> "",
                                         klass |-> "None"])]

\* try_next_token reading peek_token without take()
TryNextTokenNoTake(st) ==
    IF st.peek_token # <<>>
    THEN [st |-> st, tok |-> st.peek_token[1]]
    ELSE LET token == NextToken(st.pulled + 1) IN
         IF token.kind = "Unknown"
         THEN [st |-> [st EXCEPT !.pulled = @ + 1, !.err = "LexError"], tok |-> token]
         ELSE [st |-> [st EXCEPT !.pulled = @ + 1], tok |-> token]

\* self.try_next_token(): the state after it and the token of an Ok
TryNextToken(st) ==
    IF st.peek_token # <<>>
    THEN [st |-> [st EXCEPT !.peek_token = <<>>], tok |-> st.peek_token[1]]
    ELSE LET token == NextToken(st.pulled + 1) IN
         IF token.kind = "Unknown"
         THEN [st |-> [st EXCEPT !.pulled = @ + 1, !.err = "LexError"], tok |-> token]
         ELSE [st |-> [st EXCEPT !.pulled = @ + 1], tok |-> token]

\* peek pulling the lexer also when a token is buffered
PeekAlwaysPulls(st) ==
    IF st.err # "" THEN st
    ELSE LET token == NextToken(st.pulled + 1) IN
         IF token.kind = "Unknown"
         THEN [st EXCEPT !.pulled = @ + 1, !.err = "LexError"]
         ELSE [st EXCEPT !.pulled = @ + 1, !.peek_token = <<token>>]

\* peek without the check for token::Unknown
PeekNoCheck(st) ==
    IF st.err # "" THEN st
    ELSE IF st.peek_token = <<>>
    THEN [st EXCEPT !.pulled = @ + 1, !.peek_token = <<NextToken(st.pulled + 1)>>]
    ELSE st

\* self.peek()?: the state after it; the token of an Ok is PeekTok of that state
Peek(st) ==
    IF st.err # "" THEN st
    ELSE IF st.peek_token = <<>>
    THEN LET token == NextToken(st.pulled + 1) IN
         IF token.kind = "Unknown"
         THEN [st EXCEPT !.pulled = @ + 1, !.err = "LexError"]
         ELSE [st EXCEPT !.pulled = @ + 1, !.peek_token = <<token>>]
    ELSE st

PeekTok(st) == st.peek_token[1]

\* out.string(Escape(&self.snip(token.span)), klass)?
StringSnip(st, token, klass) == String(st, Escape(snip(token)), klass)

OperatorKinds == {"Eq", "Lt", "Le", "EqEq", "Ne", "Ge", "Gt", "AndAnd", "OrOr",
                  "Not", "BinOp", "And", "Star", "RArrow", "BinOpEq", "FatArrow"}

MiscKinds == {"Dot", "DotDot", "DotDotDot", "DotDotEq", "Comma", "Semi", "Colon",
              "ModSep", "LArrow", "OpenParen", "OpenBrace", "OpenBracket",
              "CloseBrace", "CloseParen"}

\* the And/Star arm with its guard inverted
WriteAndStarInverted(st, token) ==
    LET p == Peek(st) IN
    IF p.err # "" THEN p
    ELSE IF PeekTok(p).kind = "Whitespace" THEN StringSnip(p, token, "RefKeyWord")
    ELSE StringSnip(p, token, "Op")

\* write_token, token::BinOp(And) | token::BinOp(Star)
WriteAndStar(st, token) ==
    LET p == Peek(st) IN
    IF p.err # "" THEN p
    ELSE IF PeekTok(p).kind # "Whitespace" THEN StringSnip(p, token, "RefKeyWord")
    ELSE StringSnip(p, token, "Op")

\* the Not arm without the in_macro case
WriteNotAlwaysOp(st, token) == StringSnip(st, token, "Op")

\* the Not arm classifying Macro without clearing in_macro
WriteNotKeepsMacro(st, token) ==
    IF st.in_macro THEN StringSnip(st, token, "Macro")
    ELSE StringSnip(st, token, "Op")

\* write_token, token::Not
WriteNot(st, token) ==
    IF st.in_macro THEN StringSnip([st EXCEPT !.in_macro = FALSE], token, "Macro")
    ELSE StringSnip(st, token, "Op")

\* write_token, token::Dollar
WriteDollar(st, token) ==
    LET p == Peek(st) IN
    IF p.err # "" THEN p
    ELSE IF IsIdent(PeekTok(p))
    THEN StringSnip([p EXCEPT !.in_macro_nonterminal = TRUE], token, "MacroNonTerminal")
    ELSE StringSnip(p, token, "None")

\* the Pound arm, not writing the `!` it consumed
WritePoundDropsNot(st) ==
    LET p1 == Peek(st) IN
    IF p1.err # "" THEN p1
    ELSE IF PeekTok(p1).kind = "Not"
    THEN LET n == TryNextToken(p1).st
             p2 == Peek(n)
         IN  IF p2.err # "" THEN p2
             ELSE LET e == IF PeekTok(p2).kind = "OpenBracket"
                           THEN EnterSpan([p2 EXCEPT !.in_attribute = TRUE], "Attribute")
                           ELSE p2
                  IN  String(e, "#", "None")
    ELSE LET e == IF PeekTok(p1).kind = "OpenBracket"
                  THEN EnterSpan([p1 EXCEPT !.in_attribute = TRUE], "Attribute")
                  ELSE p1
         IN  String(e, "#", "None")

\* the Pound arm without its case 1: the `!` is left to the next iteration
WritePoundLeavesNot(st) ==
    LET p1 == Peek(st) IN
    IF p1.err # "" THEN p1
    ELSE LET e == IF PeekTok(p1).kind = "OpenBracket"
                  THEN EnterSpan([p1 EXCEPT !.in_attribute = TRUE], "Attribute")
                  ELSE p1
         IN  String(e, "#", "None")

\* write_token, token::Pound
WritePound(st) ==
    LET p1 == Peek(st) IN
    IF p1.err # "" THEN p1
    ELSE IF PeekTok(p1).kind = "Not"
    THEN LET n == TryNextToken(p1).st
             p2 == Peek(n)
         IN  IF p2.err # "" THEN p2
             ELSE LET e == IF PeekTok(p2).kind = "OpenBracket"
                           THEN EnterSpan([p2 EXCEPT !.in_attribute = TRUE], "Attribute")
                           ELSE p2
                  IN  String(String(e, "#", "None"), "!", "None")
    ELSE LET e == IF PeekTok(p1).kind = "OpenBracket"
                  THEN EnterSpan([p1 EXCEPT !.in_attribute = TRUE], "Attribute")
                  ELSE p1
         IN  String(e, "#", "None")

\* the CloseDelim(Bracket) arm without its exit_span
WriteCloseBracketNoExit(st, token) ==
    IF st.in_attribute
    THEN String([st EXCEPT !.in_attribute = FALSE], "]", "None")
    ELSE StringSnip(st, token, "None")

\* write_token, token::CloseDelim(token::Bracket)
WriteCloseBracket(st, token) ==
    IF st.in_attribute
    THEN ExitSpan(String([st EXCEPT !.in_attribute = FALSE], "]", "None"))
    ELSE StringSnip(st, token, "None")

\* write_token, token::Literal(lit)
WriteLiteral(st, token) ==
    IF token.name \in {"Byte", "Char", "Err", "ByteStr", "ByteStrRaw", "Str", "StrRaw"}
    THEN StringSnip(st, token, "String")
    ELSE IF token.name \in {"Integer", "Float"}
    THEN StringSnip(st, token, "Number")
    ELSE [st EXCEPT !.err = "panic"]

\* the last Ident arm peeking for `!` before it reads in_macro_nonterminal
WriteOtherIdentPeekFirst(st, token) ==
    LET p == Peek(st) IN
    IF p.err # "" THEN p
    ELSE IF PeekTok(p).kind = "Not"
    THEN StringSnip([p EXCEPT !.in_macro = TRUE], token, "Macro")
    ELSE IF p.in_macro_nonterminal
    THEN StringSnip([p EXCEPT !.in_macro_nonterminal = FALSE], token, "MacroNonTerminal")
    ELSE StringSnip(p, token, "Ident")

\* write_token, token::Ident(name, is_raw), the last arm
WriteOtherIdent(st, token) ==
    IF st.in_macro_nonterminal
    THEN StringSnip([st EXCEPT !.in_macro_nonterminal = FALSE], token, "MacroNonTerminal")
    ELSE LET p == Peek(st) IN
         IF p.err # "" THEN p
         ELSE IF PeekTok(p).kind = "Not"
         THEN StringSnip([p EXCEPT !.in_macro = TRUE], token, "Macro")
         ELSE StringSnip(p, token, "Ident")

\* the Ident arm testing the macro state before the name
WriteIdentMacroFirst(st, token) ==
    LET name == token.name
        is_raw == token.is_raw
    IN  IF st.in_macro_nonterminal THEN WriteOtherIdent(st, token)
        ELSE IF name \in RefNames /\ ~is_raw THEN StringSnip(st, token, "RefKeyWord")
        ELSE IF name \in SelfNames THEN StringSnip(st, token, "Self_")
        ELSE IF name \in BoolNames /\ ~is_raw THEN StringSnip(st, token, "Bool")
        ELSE IF name \in PreludeTyNames THEN StringSnip(st, token, "PreludeTy")
        ELSE IF name \in PreludeValNames THEN StringSnip(st, token, "PreludeVal")
        ELSE IF IsReservedIdent(token) THEN StringSnip(st, token, "KeyWord")
        ELSE WriteOtherIdent(st, token)

\* write_token, token::Ident(name, is_raw)
WriteIdent(st, token) ==
    LET name == token.name
        is_raw == token.is_raw
    IN  IF name \in RefNames /\ ~is_raw THEN StringSnip(st, token, "RefKeyWord")
        ELSE IF name \in SelfNames THEN StringSnip(st, token, "Self_")
        ELSE IF name \in BoolNames /\ ~is_raw THEN StringSnip(st, token, "Bool")
        ELSE IF name \in PreludeTyNames THEN StringSnip(st, token, "PreludeTy")
        ELSE IF name \in PreludeValNames THEN StringSnip(st, token, "PreludeVal")
        ELSE IF IsReservedIdent(token) THEN StringSnip(st, token, "KeyWord")
        ELSE WriteOtherIdent(st, token)

\* Classifier::write_token
WriteToken(st, token) ==
    LET kind == token.kind IN
    CASE kind = "Shebang" -> String(st, Escape(ShebangSymbol(token)), "None")
      [] kind \in {"Whitespace", "Unknown"} -> StringSnip(st, token, "None")
      [] kind = "Comment" -> StringSnip(st, token, "Comment")
      [] kind = "DocComment" -> StringSnip(st, token, "DocComment")
      [] kind \in {"And", "Star"} -> WriteAndStar(st, token)
      [] kind = "Not" -> WriteNot(st, token)
      [] kind \in OperatorKinds \ {"And", "Star", "Not"} -> StringSnip(st, token, "Op")
      [] kind \in MiscKinds -> StringSnip(st, token, "None")
      [] kind = "Question" -> StringSnip(st, token, "QuestionMark")
      [] kind = "Dollar" -> WriteDollar(st, token)
      [] kind = "Pound" -> WritePound(st)
      [] kind = "CloseBracket" -> WriteCloseBracket(st, token)
      [] kind = "Literal" -> WriteLiteral(st, token)
      [] kind = "Ident" -> WriteIdent(st, token)
      [] kind = "Lifetime" -> StringSnip(st, token, "Lifetime")
      [] OTHER -> StringSnip(st, token, "None")

\* one iteration of write_source's loop; ret says whether write_source returns
WriteSourceIteration(st) ==
    LET next == TryNextToken(st) IN
    IF next.st.err # "" THEN [st |-> next.st, ret |-> TRUE]
    ELSE IF next.tok = Eof THEN [st |-> next.st, ret |-> TRUE]
    ELSE LET w == WriteToken(next.st, next.tok)
         IN  [st |-> w, ret |-> w.err # ""]

(***************************************************************************)
(* render_with_highlighting.                                               *)
(***************************************************************************)
NoOpts == [class |-> <<>>, extension |-> <<>>, tooltip |-> <<>>]

\* lines 30-38: the tooltip box (its glyph U+24D8 is written i)
TooltipBox(o) ==
    IF o.tooltip = <<>> THEN ""
    ELSE "<div class='information'><div class='tooltip " \o o.tooltip[1][2]
         \o "'>i<span class='tooltiptext'>" \o o.tooltip[1][1]
         \o "</span></div></div>"

write_header(out, class) ==
    out \o "<div class=\"example-wrap\"><pre class=\"rust "
        \o (IF class = <<>> THEN "" ELSE class[1]) \o "\">\n"

write_footer(out) == out \o "</pre></div>\n"

\* the match on highlight_result, were an IoError kept apart from a LexError
RenderResultIoFails(o, tokens, e, highlighted) ==
    IF e = ""
    THEN write_footer(
             (write_header(TooltipBox(o), o.class) \o highlighted)
             \o (IF o.extension = <<>> THEN "" ELSE o.extension[1]))
    ELSE IF e = "IoError" THEN ""
    ELSE TooltipBox(o) \o "<pre><code>" \o SourceText(tokens) \o "</code></pre>"

\* lines 49-72: the match on highlight_result, given write_source's error
RenderResult(o, tokens, e, highlighted) ==
    IF e = ""
    THEN write_footer(
             (write_header(TooltipBox(o), o.class) \o highlighted)
             \o (IF o.extension = <<>> THEN "" ELSE o.extension[1]))
    ELSE TooltipBox(o) \o "<pre><code>" \o SourceText(tokens) \o "</code></pre>"

(***************************************************************************)
(* Inputs.                                                                 *)
(***************************************************************************)
\* token streams of at most n tokens over the alphabet a; the lexer returns
\* a Shebang token only as the first token of a file
Streams(a, n) == UNION {[1..k -> a] : k \in 0..n}

Inputs(a, n) ==
    Streams(a, n)
    \cup (IF n = 0 THEN {} ELSE {<<Tok("Shebang")>> \o s : s \in Streams(a, n - 1)})

Alphabet ==
    {Tok("Whitespace"), Tok("Unknown"), Tok("Comment"), Tok("And"), Tok("Star"),
     Tok("Not"), Tok("OpenBracket"), Tok("CloseBracket"), Tok("Pound"),
     Tok("Dollar"), Ident("f", FALSE), Ident("fn", FALSE)}

NoWr == [text |-> <<>>, klass |-> "None", buf |-> "", a |-> "", b |-> "", step |-> 0]

(***************************************************************************)
(* Actions.                                                                *)
(***************************************************************************)
\* the state render_with_highlighting leaves when it calls write_source
Start(tokens, o, fail_at) ==
    /\ src = tokens
    /\ opts = o
    /\ sink_fail_at = fail_at
    /\ pc = "write_source"
    /\ run = 1
    /\ pulled = ClassifierNew.pulled
    /\ peek_token = ClassifierNew.peek_token
    /\ in_attribute = ClassifierNew.in_attribute
    /\ in_macro = ClassifierNew.in_macro
    /\ in_macro_nonterminal = ClassifierNew.in_macro_nonterminal
    /\ highlighted_source = ClassifierNew.buf
    /\ calls = ClassifierNew.calls
    /\ err = ClassifierNew.err
    /\ html = ""
    /\ prev_html = ""
    /\ wr = NoWr
    /\ lexlog = <<>>

Init == \E tokens \in Inputs(Alphabet, MaxLen) : Start(tokens, NoOpts, 0)

SetClassifier(st) ==
    /\ pulled' = st.pulled
    /\ peek_token' = st.peek_token
    /\ in_attribute' = st.in_attribute
    /\ in_macro' = st.in_macro
    /\ in_macro_nonterminal' = st.in_macro_nonterminal
    /\ highlighted_source' = st.buf
    /\ calls' = st.calls
    /\ err' = st.err

\* one iteration of the loop of write_source
WriteSourceStep ==
    /\ pc = "write_source"
    /\ LET r == WriteSourceIteration(St) IN
          /\ SetClassifier(r.st)
          /\ pc' = IF r.ret THEN "returned" ELSE "write_source"
    /\ UNCHANGED <<src, opts, sink_fail_at, run, html, prev_html, wr, lexlog>>

\* render_with_highlighting after write_source has returned
Render ==
    /\ pc = "returned"
    /\ html' = RenderResult(opts, src, err, highlighted_source)
    /\ pc' = "done"
    /\ UNCHANGED <<src, opts, sink_fail_at, run, pulled, peek_token, in_attribute,
                   in_macro, in_macro_nonterminal, highlighted_source, calls, err,
                   prev_html, wr, lexlog>>

\* a second call that finds in_attribute as the first call left it
RenderAgainStale ==
    /\ pc = "done"
    /\ run < MaxRuns
    /\ run' = run + 1
    /\ prev_html' = html
    /\ html' = ""
    /\ SetClassifier([ClassifierNew EXCEPT !.in_attribute = in_attribute])
    /\ pc' = "write_source"
    /\ UNCHANGED <<src, opts, sink_fail_at, wr, lexlog>>

\* render_with_highlighting called again on the same input
RenderAgain ==
    /\ pc = "done"
    /\ run < MaxRuns
    /\ run' = run + 1
    /\ prev_html' = html
    /\ html' = ""
    /\ SetClassifier(ClassifierNew)
    /\ pc' = "write_source"
    /\ UNCHANGED <<src, opts, sink_fail_at, wr, lexlog>>

Next == WriteSourceStep \/ Render

Spec == Init /\ [][Next]_vars

\* the tokens whose handlers peek or pull ahead, and the one that fails
AlphabetFair ==
    {Tok("Unknown"), Tok("And"), Tok("Not"), Tok("OpenBracket"), Tok("Pound"),
     Ident("f", FALSE)}

InitFair == \E tokens \in Inputs(AlphabetFair, MaxLenFair) : Start(tokens, NoOpts, 0)

\* write_source is sequential code: its loop keeps running until it returns
SpecFair == InitFair /\ [][Next]_vars /\ WF_vars(WriteSourceStep)

\* class, extension and tooltip given (tooltip is a pair: text, class)
AllOpts == [class |-> <<"c">>, extension |-> <<"e">>, tooltip |-> << <<"t", "k">> >>]

OptsChoices == {NoOpts, AllOpts}

\* two calls of render_with_highlighting on the same arguments
InitTwice ==
    \E tokens \in Inputs(Alphabet, MaxLenTwice), o \in OptsChoices :
        Start(tokens, o, 0)

NextTwice == WriteSourceStep \/ Render \/ RenderAgain

SpecTwice == InitTwice /\ [][NextTwice]_vars

\* write_source writing into a sink whose sink_fail_at-th call returns Err
InitFailingSink ==
    \E tokens \in Inputs(Alphabet, MaxLenSink), o \in OptsChoices,
       fail_at \in 0..MaxFailAt :
        Start(tokens, o, fail_at)

SpecFailingSink == InitFailingSink /\ [][Next]_vars

\* what a text given to Writer::string may display
WriterChars == {"x", "&", "<"}

WriterBufs == {"", "<pre>"}

\* two sinks with the same contents, a text and a class
InitWriter ==
    /\ \E text \in Streams(WriterChars, MaxTextLen), klass \in Class,
          buf \in WriterBufs :
          wr = [text |-> text, klass |-> klass, buf |-> buf, a |-> buf,
                b |-> buf, step |-> 0]
    /\ src = <<>>
    /\ opts = NoOpts
    /\ sink_fail_at = 0
    /\ pc = "writer"
    /\ run = 1
    /\ pulled = 0
    /\ peek_token = <<>>
    /\ in_attribute = FALSE
    /\ in_macro = FALSE
    /\ in_macro_nonterminal = FALSE
    /\ highlighted_source = ""
    /\ calls = <<>>
    /\ err = ""
    /\ html = ""
    /\ prev_html = ""
    /\ lexlog = <<>>

WriterUnchanged ==
    UNCHANGED <<src, opts, sink_fail_at, pc, run, pulled, peek_token, in_attribute,
                in_macro, in_macro_nonterminal, highlighted_source, calls, err,
                html, prev_html, lexlog>>

\* a.string(text, klass)
WrString ==
    /\ pc = "writer"
    /\ wr.step = 0
    /\ wr' = [wr EXCEPT !.a = WriterString(@, Flatten(wr.text), wr.klass), !.step = 1]
    /\ WriterUnchanged

\* b.enter_span(klass)
WrEnterSpan ==
    /\ pc = "writer"
    /\ wr.step = 1
    /\ wr' = [wr EXCEPT !.b = WriterEnterSpan(@, wr.klass), !.step = 2]
    /\ WriterUnchanged

\* b.string(text, None)
WrStringNone ==
    /\ pc = "writer"
    /\ wr.step = 2
    /\ wr' = [wr EXCEPT !.b = WriterString(@, Flatten(wr.text), "None"), !.step = 3]
    /\ WriterUnchanged

\* b.exit_span()
WrExitSpan ==
    /\ pc = "writer"
    /\ wr.step = 3
    /\ wr' = [wr EXCEPT !.b = WriterExitSpan(@), !.step = 4]
    /\ WriterUnchanged

NextWriter == WrString \/ WrEnterSpan \/ WrStringNone \/ WrExitSpan

SpecWriter == InitWriter /\ [][NextWriter]_vars

\* identifiers of every arm of the Ident match, and what sets the flags
AlphabetIdent ==
    {Tok("Dollar"), Tok("Not"), Tok("Pound"), Tok("OpenBracket"),
     Ident("ref", FALSE), Ident("ref", TRUE), Ident("self", FALSE),
     Ident("true", FALSE), Ident("Option", FALSE), Ident("Some", FALSE),
     Ident("fn", FALSE), Ident("f", FALSE)}

InitIdent == \E tokens \in Streams(AlphabetIdent, MaxLenIdent) : Start(tokens, NoOpts, 0)

SpecIdent == InitIdent /\ [][Next]_vars

AlphabetPeek == {Tok("Unknown"), Tok("And"), Ident("f", FALSE)}

\* a fresh Classifier whose peek and try_next_token are called in any order
InitPeek ==
    /\ \E tokens \in Streams(AlphabetPeek, MaxLenPeek) : src = tokens
    /\ opts = NoOpts
    /\ sink_fail_at = 0
    /\ pc = "lookahead"
    /\ run = 1
    /\ pulled = ClassifierNew.pulled
    /\ peek_token = ClassifierNew.peek_token
    /\ in_attribute = ClassifierNew.in_attribute
    /\ in_macro = ClassifierNew.in_macro
    /\ in_macro_nonterminal = ClassifierNew.in_macro_nonterminal
    /\ highlighted_source = ClassifierNew.buf
    /\ calls = ClassifierNew.calls
    /\ err = ClassifierNew.err
    /\ html = ""
    /\ prev_html = ""
    /\ wr = NoWr
    /\ lexlog = <<>>

\* try_next_token has returned Eof: write_source makes no call after that
EofTaken ==
    /\ lexlog # <<>>
    /\ lexlog[Len(lexlog)].op = "try_next_token"
    /\ lexlog[Len(lexlog)].tok = Eof

CallAllowed ==
    /\ pc = "lookahead"
    /\ err = ""
    /\ ~EofTaken
    /\ Len(lexlog) < MaxCalls

\* self.peek()
PeekCall ==
    /\ CallAllowed
    /\ LET p == Peek(St) IN
          /\ SetClassifier(p)
          /\ lexlog' = Append(lexlog,
                 [op |-> "peek", ok |-> p.err = "",
                  tok |-> IF p.err = "" THEN PeekTok(p) ELSE NextToken(p.pulled),
                  pulled |-> p.pulled])
    /\ UNCHANGED <<src, opts, sink_fail_at, pc, run, html, prev_html, wr>>

\* self.try_next_token()
TryNextTokenCall ==
    /\ CallAllowed
    /\ LET n == TryNextToken(St) IN
          /\ SetClassifier(n.st)
          /\ lexlog' = Append(lexlog,
                 [op |-> "try_next_token", ok |-> n.st.err = "", tok |-> n.tok,
                  pulled |-> n.st.pulled])
    /\ UNCHANGED <<src, opts, sink_fail_at, pc, run, html, prev_html, wr>>

NextPeek == PeekCall \/ TryNextTokenCall

SpecPeek == InitPeek /\ [][NextPeek]_vars

(***************************************************************************)
(* What the properties below are stated in.                                *)
(***************************************************************************)
\* the text units passed to the sink, in order
Strings == SelectSeq(calls, LAMBDA c : c.op = "string")

NoUnknown(tokens) == \A i \in 1..Len(tokens) : tokens[i].kind # "Unknown"

\* number of tokens try_next_token has handed out, the Eof included
Consumed == pulled - Len(peek_token)

\* the token the next iteration of write_source receives, and its index
CurIndex == Consumed + 1

Cur == NextToken(CurIndex)

NewCalls == SubSeq(calls', Len(calls) + 1, Len(calls'))

StringCall(text, klass) == [op |-> "string", text |-> text, klass |-> klass]

EnterCall(klass) == [op |-> "enter_span", text |-> "", klass |-> klass]

ExitCall == [op |-> "exit_span", text |-> "", klass |-> "None"]

RECURSIVE TextsOf(_)
\* the concatenation of the texts of a sequence of calls
TextsOf(cs) == IF cs = <<>> THEN "" ELSE Head(cs).text \o TextsOf(Tail(cs))

(***************************************************************************)
(* C1 (as stated).  For a token stream without Unknown token, write_source *)
(* returns Ok having emitted one text unit per token before Eof, in source *)
(* order, each unit's text being that token's source text, so that the     *)
(* concatenation of the emitted texts is the original source.              *)
(***************************************************************************)
C1_RoundTripOriginal ==
    (NoUnknown(src) /\ pc = "returned") =>
        /\ err = ""
        /\ Len(Strings) = Len(src)
        /\ \A k \in 1..Len(Strings) : Strings[k].text = Flatten(snip(src[k]))
        /\ TextsOf(Strings) = SourceText(src)

(***************************************************************************)
(* C1 (amended).  The same, with each unit's text the escaped source text  *)
(* of its token and the concatenation the escaped source; while            *)
(* write_source runs, the units emitted so far are those of the first      *)
(* tokens, in source order.                                                *)
(***************************************************************************)
C1_RoundTripEscaped ==
    /\ Len(Strings) <= Len(src)
    /\ \A k \in 1..Len(Strings) : Strings[k].text = Escape(snip(src[k]))
    /\ (NoUnknown(src) /\ pc = "returned") =>
          /\ err = ""
          /\ Len(Strings) = Len(src)
          /\ TextsOf(Strings) = EscapedSourceText(src)

\* a shebang, `#!` and `&` with its lookahead, all emitted
C1_Witness ==
    /\ pc = "returned"
    /\ err = ""
    /\ Len(src) = 4
    /\ src[1].kind = "Shebang"
    /\ src[2].kind = "Pound"
    /\ src[3].kind = "Not"
    /\ src[4].kind = "And"
    /\ Len(Strings) = 4

(***************************************************************************)
(* C2.  For an input with a lex error, render_with_highlighting returns    *)
(* the escaped raw input with no style wrappers and none of the partial    *)
(* classified output.                                                      *)
(***************************************************************************)
C2_FallbackEscaped ==
    (pc = "done" /\ ~NoUnknown(src)) =>
        html = (TooltipBox(opts) \o "<pre><code>") \o EscapedSourceText(src)
               \o "</code></pre>"

(***************************************************************************)
(* C3.  Once the lexer has returned an Unknown token, write_source has     *)
(* returned LexError, through try_next_token or through peek: nothing is   *)
(* pulled after that token, and only tokens before it were emitted.        *)
(***************************************************************************)
C3_LexErrorIsFatal ==
    \A i \in 1..Len(src) :
        (src[i].kind = "Unknown" /\ i <= pulled) =>
            /\ pulled = i
            /\ err = "LexError"
            /\ pc # "write_source"
            /\ peek_token = <<>>
            /\ Len(Strings) < i
            /\ \A k \in 1..Len(Strings) : Strings[k].text = Escape(snip(src[k]))
            /\ \A c \in 1..Len(calls) : calls[c].text # Escape(snip(src[i]))

\* the Unknown token was met by peek: the token before it was not emitted
C3_Witness ==
    /\ err = "LexError"
    /\ pulled = 3
    /\ src[1].kind = "Comment"
    /\ src[2].kind = "And"
    /\ Len(Strings) = 1

\* the two tokens after Cur in the stream
Next1 == NextToken(CurIndex + 1)

Next2 == NextToken(CurIndex + 2)

HasExit(cs) == \E c \in 1..Len(cs) : cs[c].op = "exit_span"

\* the calls an iteration of write_source makes from state st
CallsFrom(st) ==
    LET r == WriteSourceIteration(st).st
    IN  SubSeq(r.calls, Len(st.calls) + 1, Len(r.calls))

C4_Open ==
    (pc = "write_source" /\ Cur.kind = "Pound" /\ ~in_attribute) =>
        /\ Next1.kind = "OpenBracket" =>
              /\ NewCalls = <<EnterCall("Attribute"), StringCall("#", "None")>>
              /\ in_attribute'
        /\ (Next1.kind = "Not" /\ Next2.kind = "OpenBracket") =>
              /\ NewCalls = <<EnterCall("Attribute"), StringCall("#", "None"),
                              StringCall("!", "None")>>
              /\ in_attribute'

C4_StaysOpen ==
    (pc = "write_source" /\ in_attribute /\ Cur.kind # "CloseBracket") =>
        /\ in_attribute'
        /\ NewCalls = CallsFrom([St EXCEPT !.in_attribute = FALSE])

C4_Close ==
    (pc = "write_source" /\ in_attribute /\ Cur.kind = "CloseBracket") =>
        /\ NewCalls = <<StringCall("]", "None"), ExitCall>>
        /\ ~in_attribute'

C4_NoOtherExit ==
    (pc = "write_source" /\ ~(in_attribute /\ Cur.kind = "CloseBracket")) =>
        ~HasExit(NewCalls)

C4_OnlyEnterIsAttribute ==
    \A c \in 1..Len(calls) :
        /\ calls[c].op = "string" => calls[c].klass # "Attribute"
        /\ calls[c].op = "enter_span" => calls[c].klass = "Attribute"

PlainIdent(token) ==
    /\ token.kind = "Ident"
    /\ ~(token.name \in RefNames /\ ~token.is_raw)
    /\ token.name \notin SelfNames
    /\ ~(token.name \in BoolNames /\ ~token.is_raw)
    /\ token.name \notin PreludeTyNames \cup PreludeValNames
    /\ ~IsReservedIdent(token)

C5_IdentBeforeNot ==
    (pc = "write_source" /\ PlainIdent(Cur) /\ ~in_macro_nonterminal
        /\ Next1.kind = "Not") =>
        /\ NewCalls = <<StringCall(Escape(snip(Cur)), "Macro")>>
        /\ in_macro'

\* the k-th token is an identifier that was classified Macro
MacroIdentAt(k) ==
    k >= 1 /\ src[k].kind = "Ident" /\ Strings[k].klass = "Macro"

C5_NotAfterMacroIdent ==
    \A k \in 1..Len(Strings) :
        (MacroIdentAt(k) /\ k < Len(Strings)) =>
            src[k + 1].kind = "Not" /\ Strings[k + 1].klass = "Macro"

(***************************************************************************)
(* C5 (as stated).  An identifier that is no special name or keyword, met  *)
(* with in_macro_nonterminal false and followed by `!`, is classified      *)
(* Macro, and so is that `!`; a `!` is classified Macro only right after   *)
(* an identifier classified Macro, and Op otherwise.                       *)
(***************************************************************************)
C5_MacroBangOriginal ==
    /\ [][C5_IdentBeforeNot]_vars
    /\ []C5_NotAfterMacroIdent
    /\ [](\A k \in 1..Len(Strings) :
            src[k].kind = "Not" =>
                Strings[k].klass = IF MacroIdentAt(k - 1) THEN "Macro" ELSE "Op")

(***************************************************************************)
(* C5 (amended).  The same, but a `!` right after a `#` is consumed by the *)
(* `#` handler and emitted with class None; every other `!` that does not  *)
(* follow an identifier classified Macro is classified Op.                 *)
(***************************************************************************)
C5_MacroBang ==
    /\ [][C5_IdentBeforeNot]_vars
    /\ []C5_NotAfterMacroIdent
    /\ [](\A k \in 1..Len(Strings) :
            src[k].kind = "Not" =>
                Strings[k].klass =
                    IF MacroIdentAt(k - 1) THEN "Macro"
                    ELSE IF k > 1 /\ src[k - 1].kind = "Pound" THEN "None"
                    ELSE "Op")

\* `f!`: both classified Macro
C5_Witness ==
    /\ Len(Strings) >= 2
    /\ PlainIdent(src[1])
    /\ src[2].kind = "Not"
    /\ Strings[1].klass = "Macro"
    /\ Strings[2].klass = "Macro"
    /\ ~in_macro

(***************************************************************************)
(* C6.  An emitted `&` or `*` has class RefKeyWord exactly when the token  *)
(* after it in the stream (Eof at the end) is not Whitespace, and class Op *)
(* exactly when it is; the token looked at is then in the lookahead        *)
(* buffer, and is the next token emitted.                                  *)
(***************************************************************************)
C6_RefOrOperator ==
    \A k \in 1..Len(Strings) :
        src[k].kind \in {"And", "Star"} =>
            /\ Strings[k].klass =
                  IF NextToken(k + 1).kind # "Whitespace" THEN "RefKeyWord" ELSE "Op"
            /\ (Len(Strings) = k /\ pc = "write_source") =>
                  peek_token = <<NextToken(k + 1)>>
            /\ Len(Strings) > k =>
                  Strings[k + 1].text = Escape(snip(src[k + 1]))
            /\ (pc = "returned" /\ err = "") => Len(Strings) = Len(src)

\* `&` before a comment and `*` before whitespace, lookaheads emitted
C6_Witness ==
    /\ Len(src) = 4
    /\ src[1].kind = "And"
    /\ src[2].kind = "Comment"
    /\ src[3].kind = "Star"
    /\ src[4].kind = "Whitespace"
    /\ Len(Strings) = 4
    /\ Strings[1].klass = "RefKeyWord"
    /\ Strings[2].klass = "Comment"
    /\ Strings[3].klass = "Op"

\* what the Err(()) arm of render_with_highlighting returns
Fallback ==
    (TooltipBox(opts) \o "<pre><code>") \o SourceText(src) \o "</code></pre>"

C8_StringIsShorthand ==
    /\ (wr.step = 4 /\ wr.klass # "None") => wr.a = wr.b
    /\ (wr.step >= 1 /\ wr.klass = "None") => wr.a = wr.buf \o Flatten(wr.text)
    /\ (wr.step >= 1 /\ wr.klass # "None") => wr.a # wr.buf \o Flatten(wr.text)

C8_Witness ==
    /\ wr.step = 4
    /\ wr.klass = "Macro"
    /\ Len(wr.text) = 2
    /\ wr.a = wr.buf \o "<span class=\"macro\">" \o Flatten(wr.text) \o "</span>"
    /\ wr.b = wr.a

C9_Step ==
    pc = "write_source" =>
        /\ Consumed' > Consumed
        /\ Cur = Eof => (pc' = "returned" /\ err' = "" /\ calls' = calls)

(***************************************************************************)
(* C9.  write_source returns: every iteration of its loop consumes at      *)
(* least one token, the iteration that receives Eof returns Ok without a   *)
(* call to the sink (also when peek pulled that Eof), the loop is never    *)
(* entered with Eof consumed, and the lexer is not pulled after its Eof;   *)
(* for a stream without Unknown token the result is Ok.                    *)
(***************************************************************************)
C9_Terminates ==
    /\ <>(pc = "returned")
    /\ []((NoUnknown(src) /\ pc = "returned") => err = "")
    /\ [](pulled <= Len(src) + 1)
    /\ [](pc = "write_source" => Consumed <= Len(src))
    /\ [][C9_Step]_vars

\* the Eof was first pulled by peek, as the lookahead of a final `&`
C9_Witness ==
    /\ pc = "returned"
    /\ err = ""
    /\ Len(src) = 3
    /\ src[3].kind = "And"
    /\ pulled = 4
    /\ Len(Strings) = 3

Entered == Len(SelectSeq(calls, LAMBDA c : c.op = "enter_span"))

Exited == Len(SelectSeq(calls, LAMBDA c : c.op = "exit_span"))

(***************************************************************************)
(* C11.  in_attribute holds exactly when one Attribute span is open in the *)
(* sink: enter_span calls less exit_span calls is 1 when it holds, 0 when  *)
(* it does not, and never more (a `#[` met while it holds enters no second *)
(* span).                                                                  *)
(***************************************************************************)
C11_FlagIsOpenSpan ==
    /\ Exited <= Entered
    /\ Entered = Exited + (IF in_attribute THEN 1 ELSE 0)

\* the token handed out before Cur
Prev == NextToken(Consumed)

(***************************************************************************)
(* C12.  in_macro_nonterminal holds only between a `$` and the identifier  *)
(* right after it, which clears it whatever identifier it is, so a unit    *)
(* classified MacroNonTerminal that is an identifier comes right after a   *)
(* `$`.                                                                    *)
(***************************************************************************)
C12_NonterminalOnlyAfterDollar ==
    /\ (pc = "write_source" /\ in_macro_nonterminal) =>
          (Consumed >= 1 /\ Prev.kind = "Dollar")
    /\ \A k \in 1..Len(Strings) :
          (src[k].kind = "Ident" /\ Strings[k].klass = "MacroNonTerminal") =>
              (k > 1 /\ src[k - 1].kind = "Dollar")

\* positions of a `#` followed by `!` and then by something other than `[`
PoundBangAt(k) ==
    /\ k + 1 <= Len(src)
    /\ src[k].kind = "Pound"
    /\ src[k + 1].kind = "Not"
    /\ NextToken(k + 2).kind # "OpenBracket"

C13_BareStep ==
    (pc = "write_source" /\ Cur.kind = "Pound" /\ Next1.kind = "Not"
        /\ Next2.kind # "OpenBracket") =>
        /\ NewCalls = <<StringCall("#", "None")>>
        /\ in_attribute' = in_attribute
        /\ Consumed' = Consumed + 1

(***************************************************************************)
(* C13 (as stated).  A `#` followed by `!` and then by something other     *)
(* than `[` emits only "#" with None, enters no span, leaves in_attribute  *)
(* and leaves the `!` to be classified on its own, as Operator.            *)
(***************************************************************************)
C13_BangOnlyBeforeBracket ==
    /\ [](\A k \in 1..Len(Strings) :
             (k > 1 /\ PoundBangAt(k - 1)) => Strings[k].klass = "Op")
    /\ [][C13_BareStep]_vars

C13_PoundStep ==
    (pc = "write_source" /\ Cur.kind = "Pound") =>
        IF Next1.kind = "Unknown" \/ (Next1.kind = "Not" /\ Next2.kind = "Unknown")
        THEN err' = "LexError" /\ NewCalls = <<>>
        ELSE IF Next1.kind = "Not"
        THEN /\ Consumed' = Consumed + 2
             /\ NewCalls = (IF Next2.kind = "OpenBracket"
                            THEN <<EnterCall("Attribute")>> ELSE <<>>)
                           \o <<StringCall("#", "None"), StringCall("!", "None")>>
             /\ in_attribute' = (in_attribute \/ Next2.kind = "OpenBracket")
        ELSE /\ Consumed' = Consumed + 1
             /\ NewCalls = (IF Next1.kind = "OpenBracket"
                            THEN <<EnterCall("Attribute")>> ELSE <<>>)
                           \o <<StringCall("#", "None")>>
             /\ in_attribute' = (in_attribute \/ Next1.kind = "OpenBracket")

(***************************************************************************)
(* C13 (amended).  The `#` handler consumes a following `!` whatever comes *)
(* after it and emits "#" and "!" both with None; it enters a span and     *)
(* sets in_attribute only if a `[` comes next.  A `#` followed by neither  *)
(* `!` nor `[` emits "#" alone with None and leaves in_attribute.          *)
(***************************************************************************)
C13_BangAlwaysConsumed ==
    /\ [](\A k \in 1..Len(Strings) :
             (k > 1 /\ src[k - 1].kind = "Pound" /\ src[k].kind = "Not") =>
                 (Strings[k] = StringCall("!", "None")
                  /\ Strings[k - 1] = StringCall("#", "None")))
    /\ [][C13_PoundStep]_vars

\* `#!f`: no span, the `!` emitted by the `#` handler, `f` after it
C13_Witness ==
    /\ pc = "returned"
    /\ Len(src) = 3
    /\ src[1].kind = "Pound"
    /\ src[2].kind = "Not"
    /\ src[3].kind = "Ident"
    /\ ~in_attribute
    /\ calls = <<StringCall("#", "None"), StringCall("!", "None"),
                 StringCall("f", "Ident")>>

\* the tokens try_next_token returned with Ok, in order
Taken ==
    LET oks == SelectSeq(lexlog, LAMBDA c : c.op = "try_next_token" /\ c.ok)
    IN  [k \in 1..Len(oks) |-> oks[k].tok]

(***************************************************************************)
(* C14.  peek does not consume: at most one token is buffered, a peek      *)
(* right after a peek returns the same token without pulling the lexer,    *)
(* the try_next_token right after a peek returns the peeked token without  *)
(* pulling and empties the buffer, and the tokens try_next_token returns   *)
(* are the lexer's, each once and in order, however the calls interleave.  *)
(***************************************************************************)
C14_PeekDoesNotConsume ==
    /\ Len(peek_token) <= 1
    /\ pulled <= Len(Taken) + 1
    /\ Len(Taken) = pulled - Len(peek_token) - (IF err = "" THEN 0 ELSE 1)
    /\ \A k \in 1..Len(Taken) : Taken[k] = NextToken(k)
    /\ \A i \in 1..Len(lexlog) :
          /\ (lexlog[i].op = "try_next_token" /\ i = Len(lexlog)) => peek_token = <<>>
          /\ (i > 1 /\ lexlog[i - 1].op = "peek") =>
                (lexlog[i].ok /\ lexlog[i].tok = lexlog[i - 1].tok
                 /\ lexlog[i].pulled = lexlog[i - 1].pulled)

\* peek, peek, try_next_token, try_next_token, peek on a stream of two tokens
C14_Witness ==
    /\ Len(lexlog) = 5
    /\ lexlog[1].op = "peek"
    /\ lexlog[2].op = "peek"
    /\ lexlog[3].op = "try_next_token"
    /\ lexlog[4].op = "try_next_token"
    /\ lexlog[5].op = "peek"
    /\ Len(src) = 2
    /\ Taken = src
    /\ peek_token = <<Eof>>
    /\ pulled = 3

\* the class the claim gives an identifier by its value
ValueClass(token) ==
    IF token.name \in RefNames /\ ~token.is_raw THEN "RefKeyWord"
    ELSE IF token.name \in SelfNames THEN "Self_"
    ELSE IF token.name \in BoolNames /\ ~token.is_raw THEN "Bool"
    ELSE IF token.name \in PreludeTyNames THEN "PreludeTy"
    ELSE IF token.name \in PreludeValNames THEN "PreludeVal"
    ELSE "KeyWord"

C15_Step ==
    (pc = "write_source" /\ Cur.kind = "Ident" /\ ~PlainIdent(Cur)) =>
        /\ NewCalls = <<StringCall(Escape(snip(Cur)), ValueClass(Cur))>>
        /\ in_attribute' = in_attribute
        /\ in_macro' = in_macro
        /\ in_macro_nonterminal' = in_macro_nonterminal
        /\ peek_token' = <<>>
        /\ Consumed' = Consumed + 1
        /\ pulled' = pulled + (IF peek_token = <<>> THEN 1 ELSE 0)

(***************************************************************************)
(* C15.  An identifier that is non-raw ref/mut, self/Self, non-raw         *)
(* true/false, Option/Result, Some/None/Ok/Err or reserved is emitted with *)
(* the class of its value whatever the flags and the next token are, and   *)
(* write_token leaves the three flags as they were, peeks at nothing and   *)
(* leaves the lookahead buffer empty as try_next_token left it.            *)
(***************************************************************************)
C15_ValueBeforeMacroState == [][C15_Step]_vars

\* `$Some!`: Some is PreludeValue after a `$` and before a `!`
C15_Witness ==
    /\ pc = "returned"
    /\ Len(src) = 3
    /\ src[1].kind = "Dollar"
    /\ src[2] = Ident("Some", FALSE)
    /\ src[3].kind = "Not"
    /\ in_macro_nonterminal
    /\ Len(Strings) = 3
    /\ Strings[2].klass = "PreludeVal"
    /\ Strings[3].klass = "Op"

(***************************************************************************)
(* C16.  When write_source returns Ok every span entered has been exited:  *)
(* as many exit_span calls as enter_span calls, and in_attribute false.    *)
(***************************************************************************)
C16_SpansClosedAtOk ==
    (pc = "returned" /\ err = "") => (Entered = Exited /\ ~in_attribute)

C17_Step ==
    /\ (in_macro' /\ ~in_macro) => (PlainIdent(Cur) /\ Next1.kind = "Not")
    /\ (in_macro /\ pc = "write_source") => (~in_macro' /\ Cur.kind = "Not")

(***************************************************************************)
(* C17.  Between two write_token calls in_macro holds only if the          *)
(* lookahead buffer holds a `!`: it is set only by a plain identifier      *)
(* whose peeked successor is `!` and cleared by the next token processed,  *)
(* that `!`; it is false when any other token is classified and when       *)
(* write_source has returned.                                              *)
(***************************************************************************)
C17_MacroFlagAwaitsBang ==
    /\ []((pc = "write_source" /\ in_macro) => peek_token = <<Tok("Not")>>)
    /\ []((pc = "write_source" /\ Cur.kind # "Not") => ~in_macro)
    /\ [](pc # "write_source" => ~in_macro)
    /\ [][C17_Step]_vars

\* `f!` after f: the flag is set and the `!` is buffered
C17_Witness ==
    /\ pc = "write_source"
    /\ in_macro
    /\ peek_token = <<Tok("Not")>>
    /\ Len(Strings) = 1
    /\ Strings[1] = StringCall("f", "Macro")

C18_Step ==
    /\ (in_macro' /\ ~in_macro) => (~in_macro_nonterminal /\ ~in_macro_nonterminal')
    /\ (in_macro /\ pc = "write_source") => (Cur.kind # "Dollar" /\ ~in_macro_nonterminal')

(***************************************************************************)
(* C18.  in_macro and in_macro_nonterminal are never both true: in_macro   *)
(* is set only by a step that finds in_macro_nonterminal false and leaves  *)
(* it false, and the token processed while in_macro holds is not a `$`.    *)
(***************************************************************************)
C18_MacroFlagsExclusive ==
    /\ [](~(in_macro /\ in_macro_nonterminal))
    /\ [][C18_Step]_vars

\* `$fn f!` after f: in_macro_nonterminal, left set by `$fn`, won over the `!`
C18_Witness ==
    /\ pc = "write_source"
    /\ Len(src) = 4
    /\ src[1].kind = "Dollar"
    /\ src[2] = Ident("fn", FALSE)
    /\ src[3] = Ident("f", FALSE)
    /\ src[4].kind = "Not"
    /\ Len(Strings) = 3
    /\ Strings[3].klass = "MacroNonTerminal"
    /\ ~in_macro
    /\ ~in_macro_nonterminal
    /\ in_attribute = FALSE

====
